---- MODULE Spec2Model ----
(***************************************************************************)
(* cardmaker.Drawable (cardmaker.drawable-1.0.0.js): the draw/invalidate   *)
(* protocol of a scene-graph node and its local/global coordinate          *)
(* conversion.  JavaScript is single threaded: the state machine is one    *)
(* call stack.  An action is one call of a Drawable method made by the     *)
(* code that is running (the event loop when the stack is empty, else the  *)
(* user code of the top frame: a subclass' onDraw or an 'invalidate'       *)
(* listener), or the return / throw of the running user code.              *)
(***************************************************************************)
EXTENDS Integers, Sequences, FiniteSets, TLC

\* ---------------------------------------------------------------- bounds
\* Deepest nesting of user code (paint hooks, listeners) on the call stack.
MaxDepth == 2

\* ---------------------------------------------------------------- objects
\* "d" is a plain `new cardmaker.Drawable()` (base onDraw); "g" and "h" are
\* DrawableContainer instances, Drawable subclasses that override onDraw.
Nodes == {"d", "g", "h"}
Containers == {"g", "h"}
\* The nodes constructed when the protocol is explored: one of each kind.
Pair == {"d", "g"}
\* The node constructed when every operation is explored together.
Solo == {"g"}
Null == "null"
\* A value that is no Drawable at all (a string, a plain object).
Junk == "junk"
\* Arguments tried for setX / setY / setWidth / setHeight.
Coords == {-5, 10}
\* Points tried for localToGlobal / globalToLocal.
Points == {<<0, 0>>, <<3, -4>>}
\* Geometry the coordinate conversions are tried on: local origins and sizes.
Origins == {<<0, 0>>, <<10, 5>>, <<100, 50>>}
Sizes == {<<0, 0>>, <<30, 20>>}

VARIABLES
    bounds,   \* bounds[n]: self.bounds, [minX, minY, width, height]
    parent,   \* parent[n]: self.parent, a container or Null
    lock,     \* lock[n]: self.lock is held
    valid,    \* valid[n]: self.valid
    stack,    \* active user code, innermost last: [k, n, drew]; drew: a
              \* draw of n has returned while this frame was active
    last      \* the step just taken: the method, its receiver and argument,
              \* how it ended, its result (for draw and invalidate: isValid()
              \* before the step; when a dispatch ends: whether a draw of the
              \* node returned during it) and the events it dispatched

vars == <<bounds, parent, lock, valid, stack, last>>

\* The nodes that exist.
Scene == DOMAIN valid

\* ------------------------------------------------- external collaborators
\* parent instanceof cardmaker.DrawableContainer
IsContainer(v) == v \in Containers
\* parent instanceof cardmaker.Drawable (a DrawableContainer is a Drawable)
IsDrawable(v) == v \in Nodes
\* cardmaker.Lock: tryLock() acquires iff the lock is free.
tryLock(held) == ~held
isLocked(held) == held
\* new cardmaker.Bounds()
NewBounds == [minX |-> 0, minY |-> 0, width |-> 0, height |-> 0]
\* cardmaker.Point.add / subtract return new points.
PointAdd(p, dx, dy) == <<p[1] + dx, p[2] + dy>>
PointSubtract(p, dx, dy) == <<p[1] - dx, p[2] - dy>>
\* cardmaker.Point.createFromBounds(bounds)
createFromBounds(b) == <<b.minX, b.minY>>

\* InvalidateEvent(type, target), lines 11-42.
InvalidateEvent(type, target) == [type |-> type, target |-> target]

\* ------------------------------------------------------------ call stack
Frame(k, n) == [k |-> k, n |-> n, drew |-> FALSE]
Depth == Len(stack)
Top == stack[Depth]
\* The running code is the event loop or user code (not a loop that hangs).
Running == IF Depth = 0 THEN TRUE ELSE Top.k \in {"onDraw", "listener"}
\* The code now running may make a call that starts more user code.
CanNest == Running /\ Depth < MaxDepth
None == <<>>
Step(op, n, arg, out, res, ev) ==
    [op |-> op, n |-> n, arg |-> arg, out |-> out, res |-> res, ev |-> ev]
\* A paint hook of n is active, i.e. a draw call on n is in progress.
InDraw(n) == \E i \in 1..Depth : stack[i].k = "onDraw" /\ stack[i].n = n
\* An error thrown by the running code unwinds the stack down to the frame
\* that catches it (c = 0: nothing catches, the event loop reports it).
Unwind(c) == SubSeq(stack, 1, c)
\* A draw of n has returned: note it in the dispatches and in the paint hook
\* of n still running.
NoteDraw(s, n) ==
    [i \in DOMAIN s |->
        IF s[i].n = n THEN [s[i] EXCEPT !.drew = TRUE] ELSE s[i]]

\* --------------------------------------------------------------- Drawable
\* function Drawable(), lines 55-117, for each node of `scene`.
Constructed(scene) ==
    /\ bounds = [n \in scene |-> NewBounds]
    /\ parent = [n \in scene |-> Null]
    /\ lock = [n \in scene |-> FALSE]
    /\ valid = [n \in scene |-> FALSE]
    /\ stack = <<>>
    /\ last = Step("new", Null, None, "returned", None, <<>>)

Init == Constructed(Pair)

\* Drawable.prototype.onDraw of the base class throws (lines 153-155); a
\* subclass' override is user code that runs as a frame.
onDrawThrows(n) == n \notin Containers

\* draw with line 140 left out.
drawFinish_Forgotten(n) == valid

\* `this.valid = true`, line 140.
drawFinish(n) == [valid EXCEPT ![n] = TRUE]

\* `this.lock.unlock()`, line 137.
drawUnlock(n) == [lock EXCEPT ![n] = FALSE]

\* draw that calls the paint hook whether or not tryLock acquired the lock.
draw_Reentrant(n) ==
    /\ Running
    /\ lock' = [lock EXCEPT ![n] = TRUE]
    /\ IF onDrawThrows(n)
       THEN \E c \in 0..Depth :
               /\ stack' = Unwind(c)
               /\ last' = Step("draw", n, None, "threw", None, <<>>)
       ELSE /\ CanNest
            /\ stack' = Append(stack, Frame("onDraw", n))
            /\ last' = Step("draw", n, None, "painting", None, <<>>)
    /\ UNCHANGED <<bounds, parent, valid>>

\* draw with `this.valid = true` moved in front of the `if`.
draw_ValidFirst(n) ==
    /\ Running
    /\ valid' = drawFinish(n)
    /\ IF tryLock(lock[n])
       THEN /\ lock' = [lock EXCEPT ![n] = TRUE]
            /\ IF onDrawThrows(n)
               THEN \E c \in 0..Depth :
                       /\ stack' = Unwind(c)
                       /\ last' = Step("draw", n, None, "threw", None, <<>>)
               ELSE /\ CanNest
                    /\ stack' = Append(stack, Frame("onDraw", n))
                    /\ last' = Step("draw", n, None, "painting", None, <<>>)
            /\ UNCHANGED <<bounds, parent>>
       ELSE /\ stack' = NoteDraw(stack, n)
            /\ last' = Step("draw", n, None, "skipped", valid[n], <<>>)
            /\ UNCHANGED <<bounds, parent, lock>>

\* draw with `this.lock.unlock()` moved behind the `if`: a nested draw that
\* skipped the paint hook releases the lock of the draw in progress.
draw_UnlockAlways(n) ==
    /\ Running
    /\ IF tryLock(lock[n])
       THEN /\ lock' = [lock EXCEPT ![n] = TRUE]
            /\ IF onDrawThrows(n)
               THEN \E c \in 0..Depth :
                       /\ stack' = Unwind(c)
                       /\ last' = Step("draw", n, None, "threw", None, <<>>)
               ELSE /\ CanNest
                    /\ stack' = Append(stack, Frame("onDraw", n))
                    /\ last' = Step("draw", n, None, "painting", None, <<>>)
            /\ UNCHANGED <<bounds, parent, valid>>
       ELSE /\ lock' = drawUnlock(n)
            /\ valid' = drawFinish(n)
            /\ stack' = NoteDraw(stack, n)
            /\ last' = Step("draw", n, None, "skipped", valid[n], <<>>)
            /\ UNCHANGED <<bounds, parent>>

\* Drawable.prototype.draw, lines 134-141, up to the start of the paint hook.
draw(n) ==
    /\ Running
    /\ IF tryLock(lock[n])
       THEN /\ lock' = [lock EXCEPT ![n] = TRUE]
            /\ IF onDrawThrows(n)
               THEN \E c \in 0..Depth :
                       /\ stack' = Unwind(c)
                       /\ last' = Step("draw", n, None, "threw", None, <<>>)
               ELSE /\ CanNest
                    /\ stack' = Append(stack, Frame("onDraw", n))
                    /\ last' = Step("draw", n, None, "painting", None, <<>>)
            /\ UNCHANGED <<bounds, parent, valid>>
       ELSE /\ valid' = drawFinish(n)
            /\ stack' = NoteDraw(stack, n)
            /\ last' = Step("draw", n, None, "skipped", valid[n], <<>>)
            /\ UNCHANGED <<bounds, parent, lock>>

\* The paint hook returns: draw unlocks and marks the node valid, lines 137-140.
onDrawReturn ==
    /\ Depth > 0 /\ Top.k = "onDraw"
    /\ lock' = drawUnlock(Top.n)
    /\ valid' = drawFinish(Top.n)
    /\ stack' = NoteDraw(Unwind(Depth - 1), Top.n)
    /\ last' = Step("draw", Top.n, None, "returned", valid[Top.n], <<>>)
    /\ UNCHANGED <<bounds, parent>>

\* The running user code throws; the frames up to the catcher are left
\* without running the rest of draw (no unlock, no valid = true).
userThrow ==
    /\ Depth > 0 /\ Running
    /\ \E c \in 0..(Depth - 1) : stack' = Unwind(c)
    /\ last' = Step(Top.k, Top.n, None, "threw", None, <<>>)
    /\ UNCHANGED <<bounds, parent, lock, valid>>

\* invalidate with line 164 left out.
invalidateMark_Forgotten(n) == valid

\* invalidate that marks the node's parent invalid as well.
invalidateMark_Propagating(n) ==
    [m \in DOMAIN valid |-> IF m = n \/ m = parent[n] THEN FALSE ELSE valid[m]]

\* `this.valid = false`, line 164.
invalidateMark(n) == [valid EXCEPT ![n] = FALSE]

\* invalidate that dispatches only when the node was valid.
invalidateEvents_OnChange(n) ==
    IF valid[n] THEN <<InvalidateEvent("invalidate", n)>> ELSE <<>>

\* The events handed to dispatch by one invalidate, line 165.
invalidateEvents(n) == <<InvalidateEvent("invalidate", n)>>

\* Drawable.prototype.invalidate, lines 163-166, entered through `op`.
\* dispatch runs the listeners synchronously: with none it returns at once,
\* else they run as a frame.
invalidateBody(op, n) ==
    /\ valid' = invalidateMark(n)
    /\ \/ /\ stack' = stack
          /\ last' = Step(op, n, None, "returned", valid[n], invalidateEvents(n))
       \/ /\ CanNest
          /\ stack' = Append(stack, Frame("listener", n))
          /\ last' = Step(op, n, None, "dispatching", valid[n], invalidateEvents(n))
    /\ UNCHANGED <<bounds, parent, lock>>

invalidate(n) == Running /\ invalidateBody("invalidate", n)

\* The listeners of a dispatch have all returned: invalidate returns.
listenerReturn ==
    /\ Depth > 0 /\ Top.k = "listener"
    /\ stack' = Unwind(Depth - 1)
    /\ last' = Step("invalidate", Top.n, None, "dispatched", Top.drew, <<>>)
    /\ UNCHANGED <<bounds, parent, lock, valid>>

\* onPropertyChange without the isLocked test.
onPropertyChange_Unguarded(n) == Running /\ invalidateBody("onPropertyChange", n)

\* Drawable.prototype.onPropertyChange, lines 355-359: the handler bound to
\* the matrix' change notifications at line 114.
onPropertyChange(n) ==
    /\ Running
    /\ IF ~isLocked(lock[n])
       THEN invalidateBody("onPropertyChange", n)
       ELSE /\ last' = Step("onPropertyChange", n, None, "suppressed", None, <<>>)
            /\ UNCHANGED <<bounds, parent, lock, valid, stack>>

\* Drawable.prototype.isValid, lines 173-175.
isValidOf(n) == valid[n]

isValid(n) ==
    /\ Running
    /\ last' = Step("isValid", n, None, "returned", isValidOf(n), <<>>)
    /\ UNCHANGED <<bounds, parent, lock, valid, stack>>

\* The guard of setParent testing for cardmaker.Drawable.
setParentAccepts_AnyDrawable(p) == IsDrawable(p) \/ p = Null

\* The guard of setParent, line 185.
setParentAccepts(p) == IsContainer(p) \/ p = Null

\* Drawable.prototype.setParent, lines 184-190.
setParent(n, p) ==
    /\ Running
    /\ IF setParentAccepts(p)
       THEN /\ parent' = [parent EXCEPT ![n] = p]
            /\ last' = Step("setParent", n, p, "returned", None, <<>>)
            /\ UNCHANGED <<bounds, lock, valid, stack>>
       ELSE /\ \E c \in 0..Depth : stack' = Unwind(c)
            /\ last' = Step("setParent", n, p, "TypeError", None, <<>>)
            /\ UNCHANGED <<bounds, parent, lock, valid>>

\* Drawable.prototype.getParent, lines 198-200.
getParentOf(n) == parent[n]

getParent(n) ==
    /\ Running
    /\ last' = Step("getParent", n, None, "returned", getParentOf(n), <<>>)
    /\ UNCHANGED <<bounds, parent, lock, valid, stack>>

\* A setter that also calls invalidate() after writing the field.
setField_Invalidating(op, f, n, v) ==
    /\ Running
    /\ bounds' = [bounds EXCEPT ![n][f] = v]
    /\ valid' = invalidateMark(n)
    /\ last' = Step(op, n, v, "returned", None, invalidateEvents(n))
    /\ UNCHANGED <<parent, lock, stack>>

\* Drawable.prototype.setX / setY / setWidth / setHeight, lines 243-302:
\* each passes its argument to one field of this.bounds.
setField(op, f, n, v) ==
    /\ Running
    /\ bounds' = [bounds EXCEPT ![n][f] = v]
    /\ last' = Step(op, n, v, "returned", None, <<>>)
    /\ UNCHANGED <<parent, lock, valid, stack>>

setX(n, v) == setField("setX", "minX", n, v)
setY(n, v) == setField("setY", "minY", n, v)
setWidth(n, v) == setField("setWidth", "width", n, v)
setHeight(n, v) == setField("setHeight", "height", n, v)

\* Drawable.prototype.getX / getY / getWidth / getHeight, lines 253-311.
getX(n) == bounds[n].minX
getY(n) == bounds[n].minY
getWidth(n) == bounds[n].width
getHeight(n) == bounds[n].height

\* Drawable.prototype.getLocalBounds, lines 225-235: a new Bounds holding
\* the four local values (this.bounds is always a cardmaker.Bounds).
getLocalBoundsOf(n) ==
    [minX |-> getX(n), minY |-> getY(n), width |-> getWidth(n), height |-> getHeight(n)]

\* One pass of the loop body of localToGlobal, line 323.
localToGlobalStep(point, ref) == PointAdd(point, bounds[ref].minX, bounds[ref].minY)

\* The loop body of globalToLocal copied from localToGlobal unchanged.
globalToLocalStep_Add(point, ref) == PointAdd(point, bounds[ref].minX, bounds[ref].minY)

\* One pass of the loop body of globalToLocal, line 340.
globalToLocalStep(point, ref) == PointSubtract(point, bounds[ref].minX, bounds[ref].minY)

\* The while loops of lines 322-325 and 339-342, from the walked reference
\* `ref`.  A chain of Drawables longer than the number of nodes repeats a
\* node, and then the loop never ends: ends = FALSE.
RECURSIVE localToGlobalLoop(_, _, _)
localToGlobalLoop(ref, point, fuel) ==
    IF ~IsDrawable(ref) THEN [ends |-> TRUE, point |-> point]
    ELSE IF fuel = 0 THEN [ends |-> FALSE, point |-> point]
    ELSE localToGlobalLoop(getParentOf(ref), localToGlobalStep(point, ref), fuel - 1)

RECURSIVE globalToLocalLoop(_, _, _)
globalToLocalLoop(ref, point, fuel) ==
    IF ~IsDrawable(ref) THEN [ends |-> TRUE, point |-> point]
    ELSE IF fuel = 0 THEN [ends |-> FALSE, point |-> point]
    ELSE globalToLocalLoop(getParentOf(ref), globalToLocalStep(point, ref), fuel - 1)

\* localToGlobal starting its walk at the node instead of at its parent.
localToGlobalOf_FromSelf(n, point) == localToGlobalLoop(n, point, Cardinality(Nodes))

\* localToGlobal with an `if` in place of the `while`: only the parent counts.
localToGlobalOf_OneLevel(n, point) ==
    IF IsDrawable(getParentOf(n))
    THEN [ends |-> TRUE, point |-> localToGlobalStep(point, getParentOf(n))]
    ELSE [ends |-> TRUE, point |-> point]

\* Drawable.prototype.localToGlobal, lines 320-328.
localToGlobalOf(n, point) == localToGlobalLoop(getParentOf(n), point, Cardinality(Nodes))

\* Drawable.prototype.globalToLocal, lines 337-345.
globalToLocalOf(n, point) == globalToLocalLoop(getParentOf(n), point, Cardinality(Nodes))

\* getBounds moving the rectangle by the converted origin instead of
\* overwriting its origin with it.
getBoundsOf_Translated(n) ==
    LET b == getLocalBoundsOf(n)
        r == localToGlobalOf(n, createFromBounds(b))
    IN  [ends |-> r.ends,
         bounds |-> [b EXCEPT !.minX = b.minX + r.point[1], !.minY = b.minY + r.point[2]]]

\* Drawable.prototype.getBounds, lines 207-215: the local rectangle with its
\* origin replaced by the origin converted to global coordinates.
getBoundsOf(n) ==
    LET b == getLocalBoundsOf(n)
        r == localToGlobalOf(n, createFromBounds(b))
    IN  [ends |-> r.ends,
         bounds |-> [b EXCEPT !.minX = r.point[1], !.minY = r.point[2]]]

\* A query that changes nothing: it returns `res`, or never returns when its
\* parent walk does not end (the thread then hangs in the loop for good).
Query(op, n, arg, ends, res) ==
    /\ Running
    /\ IF ends
       THEN /\ stack' = stack
            /\ last' = Step(op, n, arg, "returned", res, <<>>)
       ELSE /\ stack' = Append(stack, Frame("loop", n))
            /\ last' = Step(op, n, arg, "hangs", None, <<>>)
    /\ UNCHANGED <<bounds, parent, lock, valid>>

\* getBounds converting this.bounds in place instead of a fresh copy.
getBounds_InPlace(n) ==
    /\ Running
    /\ IF getBoundsOf(n).ends
       THEN /\ bounds' = [bounds EXCEPT ![n] = getBoundsOf(n).bounds]
            /\ stack' = stack
            /\ last' = Step("getBounds", n, None, "returned", getBoundsOf(n).bounds, <<>>)
       ELSE /\ bounds' = bounds
            /\ stack' = Append(stack, Frame("loop", n))
            /\ last' = Step("getBounds", n, None, "hangs", None, <<>>)
    /\ UNCHANGED <<parent, lock, valid>>

getLocalBounds(n) == Query("getLocalBounds", n, None, TRUE, getLocalBoundsOf(n))
getBounds(n) == Query("getBounds", n, None, getBoundsOf(n).ends, getBoundsOf(n).bounds)
localToGlobal(n, p) ==
    Query("localToGlobal", n, p, localToGlobalOf(n, p).ends, localToGlobalOf(n, p).point)
globalToLocal(n, p) ==
    Query("globalToLocal", n, p, globalToLocalOf(n, p).ends, globalToLocalOf(n, p).point)

\* ---------------------------------------------------------- specifications
Queries ==
    \/ \E n \in Scene : isValid(n)
    \/ \E n \in Scene : getParent(n)
    \/ \E n \in Scene : getLocalBounds(n)
    \/ \E n \in Scene : getBounds(n)
    \/ \E n \in Scene, p \in Points : localToGlobal(n, p)
    \/ \E n \in Scene, p \in Points : globalToLocal(n, p)

Protocol ==
    \/ \E n \in Scene : draw(n)
    \/ onDrawReturn
    \/ userThrow
    \/ \E n \in Scene : invalidate(n)
    \/ listenerReturn
    \/ \E n \in Scene : onPropertyChange(n)
    \/ \E n \in Scene, p \in Scene \cup {Null, Junk} : setParent(n, p)

Setters ==
    \/ \E n \in Scene, v \in Coords : setX(n, v)
    \/ \E n \in Scene, v \in Coords : setY(n, v)
    \/ \E n \in Scene, v \in Coords : setWidth(n, v)
    \/ \E n \in Scene, v \in Coords : setHeight(n, v)

\* The draw/invalidate protocol, setParent and the queries on a plain
\* Drawable and a container.
Next == Protocol \/ Queries

Spec == Init /\ [][Next]_vars

\* Every operation, the rectangle setters included, on one container.
SoloInit == Constructed(Solo)

SoloNext == Protocol \/ Setters \/ Queries

SpecSolo == SoloInit /\ [][SoloNext]_vars

\* The coordinate conversions on every tree, forest or cycle of parents that
\* setParent can build and a choice of the local rectangles the setters can.
Rect(o, s) == [minX |-> o[1], minY |-> o[2], width |-> s[1], height |-> s[2]]

GeomInit ==
    /\ \E o \in [Nodes -> Origins], s \in [Nodes -> Sizes] :
          bounds = [n \in Nodes |-> Rect(o[n], s[n])]
    /\ parent \in [Nodes -> Containers \cup {Null}]
    /\ lock = [n \in Nodes |-> FALSE]
    /\ valid = [n \in Nodes |-> FALSE]
    /\ stack = <<>>
    /\ last = Step("new", Null, None, "returned", None, <<>>)

GeomNext == Queries

SpecGeom == GeomInit /\ [][GeomNext]_vars

\* ------------------------------------------------------------------ claims
\* The positions of the active paint hooks of n on the stack.
Activations(n) == {i \in 1..Depth : stack[i].k = "onDraw" /\ stack[i].n = n}
\* Every held lock belongs to a paint hook that is still running.
NoLeak == \A n \in Scene : lock[n] => InDraw(n)
\* The step just taken is a call of invalidate() on n (direct or from the
\* change handler), and: that call, or the dispatch it started, has returned.
InvalidateCalled(n) ==
    /\ last.op \in {"invalidate", "onPropertyChange"} /\ last.n = n
    /\ last.out \in {"returned", "dispatching"}
InvalidateReturned(n) ==
    /\ last.op \in {"invalidate", "onPropertyChange"} /\ last.n = n
    /\ last.out \in {"returned", "dispatched"}
\* The step just taken is draw(n) returning, its hook run or skipped.
DrawReturned(n) ==
    last.op = "draw" /\ last.n = n /\ last.out \in {"returned", "skipped"}

\* C1: re-entrancy safety of draw: a draw called on a node while its paint hook
\* is running does not start the hook again, so a node never has two active
\* paint hooks; and when the draw that ran the hook has returned (the nested
\* ones returned before it), the node is valid and its lock is free.
C1_ReentrancySafe ==
    \A n \in Scene :
        /\ Cardinality(Activations(n)) <= 1
        /\ (last.op = "draw" /\ last.n = n /\ last.out = "returned")
              => (valid[n] /\ ~lock[n] /\ ~InDraw(n))

\* A draw was just called from inside the node's own paint hook and skipped it.
C1_NestedDrawSkipped ==
    last.op = "draw" /\ last.out = "skipped" /\ InDraw(last.n)

\* C2: draw clears validity: whenever a draw call has returned, with the hook
\* run or skipped and whatever the hook did, isValid() is true.
C2_DrawClearsValidity ==
    \A n \in Scene : DrawReturned(n) => isValidOf(n)

\* A draw whose paint hook ran has returned on a node that was not valid.
C2_InvalidNodeDrawn ==
    /\ last.op = "draw" /\ last.out = "returned" /\ last.res = FALSE
    /\ isValidOf(last.n)

\* C3: a change notification delivered while the lock is held dispatches no
\* InvalidateEvent and leaves valid as it is; delivered while the lock is free
\* it sets valid to false and dispatches exactly one InvalidateEvent.
C3_NotifyStep ==
    last'.op = "onPropertyChange" =>
        IF lock[last'.n]
        THEN valid' = valid /\ last'.ev = <<>> /\ last'.out = "suppressed"
        ELSE /\ valid'[last'.n] = FALSE
             /\ last'.ev = <<[type |-> "invalidate", target |-> last'.n]>>

C3_SuppressedDuringDraw == [][C3_NotifyStep]_vars

\* A notification was just delivered from inside the node's own paint hook
\* and suppressed.
C3_NotifiedInsideHook ==
    /\ last.op = "onPropertyChange" /\ last.out = "suppressed"
    /\ InDraw(last.n) /\ Top.n = last.n /\ Top.k = "onDraw"

\* C4: every call of invalidate() dispatches exactly one InvalidateEvent, of
\* type 'invalidate' and with the node as target, whether the node was valid
\* or already invalid before the call.
C4_OneEventPerInvalidate ==
    \A n \in Scene :
        (last.op = "invalidate" /\ last.n = n /\ last.out \in {"returned", "dispatching"})
            => last.ev = <<[type |-> "invalidate", target |-> n]>>

\* invalidate() was just called on a node that was already invalid.
C4_InvalidatedTwice ==
    /\ last.op = "invalidate" /\ last.out = "returned" /\ last.res = FALSE
    /\ Len(last.ev) = 1 /\ ~isValidOf(last.n)

\* C5 as claimed: at the moment invalidate() returns isValid() is false,
\* whatever the listeners did (stated for the runs in which no thrown error
\* has left a lock held).
C5_InvalidAtReturn ==
    \A n \in Scene : (NoLeak /\ InvalidateReturned(n)) => ~isValidOf(n)

\* C5 amended: isValid() is false when invalidate() hands the event to
\* dispatch, and still false when invalidate() returns unless a draw of the
\* node has returned during the dispatch.
C5_InvalidUnlessDrawn ==
    \A n \in Scene :
        /\ InvalidateCalled(n) => ~isValidOf(n)
        /\ (InvalidateReturned(n) /\ last.out = "dispatched" /\ isValidOf(n))
              => last.res = TRUE

\* A dispatch whose listeners ran has ended without a draw of the node.
C5_ListenersRanNoDraw ==
    /\ last.op = "invalidate" /\ last.out = "dispatched" /\ last.res = FALSE
    /\ ~isValidOf(last.n)

\* C6: valid is false after construction, and every change of valid from
\* false to true is the last step of a draw call on that node: no other
\* operation sets it.
C6_ValidatedBy(n) ==
    (~valid[n] /\ valid'[n]) =>
        (last'.op = "draw" /\ last'.n = n /\ last'.out \in {"returned", "skipped"})

C6_OnlyDrawValidates ==
    /\ \A n \in Scene : ~valid[n]
    /\ [][\A n \in Scene : C6_ValidatedBy(n)]_vars

\* A nested draw that skipped the paint hook has made an invalid node valid.
C6_ValidatedBySkippedDraw ==
    /\ last.op = "draw" /\ last.out = "skipped" /\ last.res = FALSE
    /\ valid[last.n] /\ InDraw(last.n)

\* C7: the lock is scoped to one draw call: while no draw of a node is in
\* progress its lock is free, also after a paint hook that threw.
C7_LockScopedToDraw ==
    \A n \in Scene : ~InDraw(n) => ~lock[n]

\* C8: setParent(p) with p neither null nor a DrawableContainer fails with a
\* TypeError and leaves parent, valid, bounds and lock as they were; with p
\* null or a DrawableContainer it succeeds and getParent() then returns p.
C8_SetParentStep ==
    last'.op = "setParent" =>
        IF last'.arg \in Containers \cup {Null}
        THEN last'.out = "returned" /\ parent'[last'.n] = last'.arg
        ELSE last'.out = "TypeError" /\ UNCHANGED <<parent, valid, bounds, lock>>

C8_ParentTypeGuard == [][C8_SetParentStep]_vars

\* A plain Drawable was just refused as parent of a node that has a parent.
C8_DrawableRefused ==
    /\ last.op = "setParent" /\ last.out = "TypeError" /\ last.arg \in Nodes
    /\ parent[last.n] \in Containers

\* The Drawables above n: its parent, the parent's parent, and so on.
Ancestors(n) ==
    LET N == Cardinality(Nodes)
        up[k \in 0..N] ==
            IF k = 0 THEN {parent[n]} \cap Scene
            ELSE up[k - 1] \cup ({parent[m] : m \in up[k - 1]} \cap Scene)
    IN  up[N]
\* The parent chain of n does not run into a cycle.
AcyclicChain(n) == \A m \in Ancestors(n) \cup {n} : m \notin Ancestors(m)
\* The sum of the local origins of the nodes of S, along x (minX) or y (minY).
RECURSIVE SumOrigin(_, _)
SumOrigin(S, f) ==
    IF S = {} THEN 0
    ELSE LET m == CHOOSE x \in S : TRUE IN bounds[m][f] + SumOrigin(S \ {m}, f)

\* C9: coordinate round trip: for a node under k >= 0 drawable ancestors and
\* an integer point p, globalToLocal(localToGlobal(p)) = p and
\* localToGlobal(globalToLocal(p)) = p, the parent chain and the origins
\* being the same for both calls.
C9_RoundTrip ==
    \A n \in Scene : AcyclicChain(n) =>
        /\ (last.op = "localToGlobal" /\ last.n = n) =>
              /\ last.out = "returned"
              /\ globalToLocalOf(n, last.res) = [ends |-> TRUE, point |-> last.arg]
        /\ (last.op = "globalToLocal" /\ last.n = n) =>
              /\ last.out = "returned"
              /\ localToGlobalOf(n, last.res) = [ends |-> TRUE, point |-> last.arg]

\* localToGlobal has just moved a point of a node under two ancestors.
C9_TwoAncestorsConverted ==
    /\ last.op = "localToGlobal" /\ last.n = "d" /\ last.out = "returned"
    /\ parent["d"] = "g" /\ parent["g"] = "h" /\ parent["h"] = Null
    /\ createFromBounds(bounds["g"]) = <<10, 5>>
    /\ createFromBounds(bounds["h"]) = <<100, 50>>
    /\ last.res = <<last.arg[1] + 110, last.arg[2] + 55>>

\* C10: for a node with an acyclic chain of ancestors, localToGlobal(p) is p
\* plus the sum of the local origins of the ancestors (the node's own origin
\* not added), and getBounds() is the local rectangle moved to the local
\* origin plus that sum, its width and height unchanged.
C10_TranslationSum ==
    \A n \in Scene : AcyclicChain(n) =>
        LET dx == SumOrigin(Ancestors(n), "minX")
            dy == SumOrigin(Ancestors(n), "minY")
        IN  /\ (last.op = "localToGlobal" /\ last.n = n) =>
                  /\ last.out = "returned"
                  /\ last.res = <<last.arg[1] + dx, last.arg[2] + dy>>
            /\ (last.op = "getBounds" /\ last.n = n) =>
                  /\ last.out = "returned"
                  /\ last.res = [minX |-> bounds[n].minX + dx,
                                 minY |-> bounds[n].minY + dy,
                                 width |-> bounds[n].width,
                                 height |-> bounds[n].height]

\* The example: A at (10,5), 30 by 20, under the root B at (100,50);
\* A.getBounds() has just returned the rectangle at (110,55), 30 by 20.
C10_ExampleBounds ==
    /\ last.op = "getBounds" /\ last.n = "d" /\ last.out = "returned"
    /\ bounds["d"] = [minX |-> 10, minY |-> 5, width |-> 30, height |-> 20]
    /\ parent["d"] = "g" /\ parent["g"] = Null
    /\ createFromBounds(bounds["g"]) = <<100, 50>>
    /\ last.res = [minX |-> 110, minY |-> 55, width |-> 30, height |-> 20]

\* C11: a root node has no transform effect: for a node whose parent is
\* none, getBounds() returns the same minX, minY, width and height as
\* getLocalBounds(), and localToGlobal(p) and globalToLocal(p) return p.
C11_RootUntransformed ==
    \A n \in Scene : (getParentOf(n) = Null /\ last.n = n) =>
        /\ last.op = "getBounds" =>
              (last.out = "returned" /\ last.res = getLocalBoundsOf(n))
        /\ last.op \in {"localToGlobal", "globalToLocal"} =>
              (last.out = "returned" /\ last.res = last.arg)

\* getBounds() has just returned the local rectangle of a root node that
\* lies away from the origin and has children.
C11_RootBoundsTaken ==
    /\ last.op = "getBounds" /\ last.out = "returned"
    /\ getParentOf(last.n) = Null
    /\ \E m \in Scene : getParentOf(m) = last.n
    /\ createFromBounds(bounds[last.n]) = <<100, 50>>
    /\ last.res = [minX |-> 100, minY |-> 50,
                   width |-> getWidth(last.n), height |-> getHeight(last.n)]

\* C12 as claimed: getLocalBounds() equals getBounds() only for nodes with
\* no parent: when getBounds() returns the local rectangle, the node's parent
\* is none.
C12_EqualOnlyForRoots ==
    \A n \in Scene :
        (last.op = "getBounds" /\ last.n = n /\ last.out = "returned"
            /\ last.res = getLocalBoundsOf(n))
        => getParentOf(n) = Null

\* C12 amended: for a node with an acyclic chain of ancestors, getBounds()
\* returns the local rectangle exactly when the local origins of its ancestors
\* sum to zero along x and along y; a node with no parent is one such case, a
\* node whose ancestors all lie at the origin is another.
C12_EqualIffZeroOffset ==
    \A n \in Scene :
        (AcyclicChain(n) /\ last.op = "getBounds" /\ last.n = n) =>
            /\ last.out = "returned"
            /\ (last.res = getLocalBoundsOf(n))
                  <=> (SumOrigin(Ancestors(n), "minX") = 0
                          /\ SumOrigin(Ancestors(n), "minY") = 0)

\* getBounds() has just returned the local rectangle of a node that has a
\* parent: the parent lies at the origin and is a root.
C12_ChildOfOriginParent ==
    /\ last.op = "getBounds" /\ last.out = "returned"
    /\ IsDrawable(getParentOf(last.n))
    /\ createFromBounds(bounds[getParentOf(last.n)]) = <<0, 0>>
    /\ getParentOf(getParentOf(last.n)) = Null
    /\ createFromBounds(bounds[last.n]) = <<10, 5>>
    /\ last.res = getLocalBoundsOf(last.n)

\* C13: the parent-chain walk terminates: in every configuration of parents
\* that successful setParent calls can build, localToGlobal(p),
\* globalToLocal(p) and getBounds() on any node return.
C13_WalkTerminates ==
    last.op \in {"localToGlobal", "globalToLocal", "getBounds"}
        => last.out = "returned"

\* The rectangle field each setter writes.
SetterField ==
    [setX |-> "minX", setY |-> "minY", setWidth |-> "width", setHeight |-> "height"]

\* C14: the rectangle setters do not invalidate: setX, setY, setWidth and
\* setHeight write their argument to the one field of the node's rectangle
\* and change nothing else: valid, parent and the lock of every node stay as
\* they were and no InvalidateEvent is dispatched, inside or outside a draw.
C14_SetterStep ==
    last'.op \in DOMAIN SetterField =>
        /\ bounds' = [bounds EXCEPT ![last'.n][SetterField[last'.op]] = last'.arg]
        /\ UNCHANGED <<valid, parent, lock, stack>>
        /\ last'.ev = <<>>
        /\ last'.out = "returned"

C14_SettersDoNotInvalidate == [][C14_SetterStep]_vars

\* setX has just moved a valid node from inside its own paint hook, and the
\* node is still valid.
C14_ValidNodeMovedInHook ==
    /\ last.op = "setX" /\ last.arg = 10 /\ getX(last.n) = 10
    /\ isValidOf(last.n) /\ InDraw(last.n) /\ isLocked(lock[last.n])

\* C15: a thrown paint-hook error terminates the draw call: the error leaves
\* draw without valid being set to true by that call, and a later draw on the
\* same node with a paint hook that does not throw does invoke the hook: on a
\* node whose paint hook is overridden, a draw called while no paint hook of
\* the node is running never skips the hook.
C15_HookRunsAfterThrow ==
    \A n \in Scene :
        (~onDrawThrows(n) /\ last.op = "draw" /\ last.n = n /\ last.out = "skipped")
            => InDraw(n)

\* C16: a nested draw never releases the outer draw's lock: as long as the
\* paint hook of a node is active its lock is held, also after nested draw
\* calls on the node have returned; so a change notification delivered from
\* inside the paint hook, after a nested draw or not, dispatches no
\* InvalidateEvent.
C16_LockHeldThroughHook ==
    \A n \in Scene :
        /\ InDraw(n) => isLocked(lock[n])
        /\ (InDraw(n) /\ last.op = "onPropertyChange" /\ last.n = n)
              => (last.out = "suppressed" /\ last.ev = <<>>)

\* A change notification was just suppressed inside a paint hook in which a
\* nested draw of the node has already returned.
C16_NotifiedAfterNestedDraw ==
    /\ last.op = "onPropertyChange" /\ last.out = "suppressed"
    /\ Depth > 0 /\ Top.k = "onDraw" /\ Top.n = last.n /\ Top.drew
    /\ isLocked(lock[last.n])

\* C17: validity and locking are per node: a step of draw or invalidate on a
\* node (the call, the return of its paint hook, the end of its dispatch, a
\* change notification) leaves the valid flag and the lock of every other
\* node, its parent and ancestors included, as they were, and every
\* InvalidateEvent it dispatches has the node itself as target.
C17_NodeStep ==
    last'.op \in {"draw", "invalidate", "onPropertyChange"} =>
        /\ \A m \in Scene \ {last'.n} : valid'[m] = valid[m] /\ lock'[m] = lock[m]
        /\ \A i \in DOMAIN last'.ev : last'.ev[i].target = last'.n

C17_NoPropagation == [][C17_NodeStep]_vars

\* invalidate() was just called on the child of a valid container, and the
\* container is still valid; the one event has the child as target.
C17_ChildInvalidatedParentValid ==
    /\ last.op = "invalidate" /\ last.n = "d" /\ last.out = "returned"
    /\ getParentOf("d") = "g" /\ isValidOf("g") /\ ~isValidOf("d")
    /\ ~isLocked(lock["d"]) /\ ~isLocked(lock["g"])
    /\ last.ev = <<InvalidateEvent("invalidate", "d")>>

\* The names of the query methods.
QueryOps ==
    {"isValid", "getParent", "getLocalBounds", "getBounds", "localToGlobal", "globalToLocal"}

\* C18: the queries are pure: isValid, getParent, getLocalBounds, getBounds,
\* localToGlobal and globalToLocal leave the stored rectangle, parent, valid
\* flag and lock of every node unchanged and dispatch no event; getBounds()
\* called again on the same node returns the same rectangle again.
C18_QueryStep ==
    last'.op \in QueryOps =>
        /\ UNCHANGED <<bounds, parent, valid, lock>>
        /\ last'.ev = <<>>
        /\ (/\ last.op = "getBounds" /\ last.out = "returned"
            /\ last'.op = "getBounds" /\ last'.n = last.n)
              => (last'.out = "returned" /\ last'.res = last.res)

C18_QueriesPure == [][C18_QueryStep]_vars

\* getBounds() has just returned a rectangle moved by the parent's origin
\* while the node's stored rectangle still has its local origin.
C18_StoredOriginKept ==
    /\ last.op = "getBounds" /\ last.n = "g" /\ last.out = "returned"
    /\ getParentOf("g") = "h" /\ getParentOf("h") = Null
    /\ createFromBounds(bounds["h"]) = <<10, 5>>
    /\ createFromBounds(bounds["g"]) = <<10, 5>>
    /\ createFromBounds(last.res) = <<20, 10>>
    /\ getLocalBoundsOf("g").minX = 10 /\ getLocalBoundsOf("g").minY = 5
====
